---- MODULE Spec2Model ----
(***************************************************************************)
(* Model of src/src/blindbid/proof.rs: Proof::prove, the witness-bundle    *)
(* reader Proof::try_from_reader_variables and the encoder                 *)
(* impl TryInto<Vec<u8>> for Proof.                                        *)
(*                                                                         *)
(* Collaborators that are not in proof.rs (the thread-local random source, *)
(* the bulletproofs prover, the relation gadget, the TLV reader/writer,    *)
(* bincode, crate::Error) are modelled by their interface.                 *)
(* Sequences are 1-based: position x of the code is index x + 1 here.      *)
(***************************************************************************)
EXTENDS Integers, Sequences, FiniteSets, TLC

----------------------------------------------------------------------------
(* Bounds of the model *)

\* longest public list drawn as an input
MaxN == 2
\* number of Proof::prove calls started in one run, over all threads
MaxCalls == 2

Threads == {1, 2}

\* size in bytes of a CompressedRistretto and of a serialized Scalar
CommitmentLen == 32

----------------------------------------------------------------------------
(* Inputs *)

Witnesses ==
    { [d |-> 7, k |-> 3, y |-> 5, y_inv |-> 13, q |-> 2, z_img |-> 9, seed |-> 11],
      [d |-> 1, k |-> 0, y |-> 4, y_inv |-> 4, q |-> 6, z_img |-> 8, seed |-> 10] }

PubLists == { [i \in 1..n |-> 20 + i] : n \in 0..MaxN }

Toggles == 0..MaxN

ProveArgs ==
    { [w |-> w, pub_list |-> l, toggle |-> g] :
        w \in Witnesses, l \in PubLists, g \in Toggles }

NoArgs == [w |-> <<>>, pub_list |-> <<>>, toggle |-> 0]

----------------------------------------------------------------------------
(* Sequence helpers *)

RECURSIVE Flatten(_)
Flatten(ss) == IF ss = <<>> THEN <<>> ELSE Head(ss) \o Flatten(Tail(ss))

Zeros(n) == [i \in 1..n |-> 0]

----------------------------------------------------------------------------
(* The random source: rand::thread_rng() is a handle on the calling        *)
(* thread's generator; Scalar::random draws the generator's next output.   *)
(* The generators are modelled as ideal: generator t's n-th output is the  *)
(* pair <<t, n>>, so no generator repeats an output and no two generators  *)
(* share one.                                                              *)

thread_rng(t) == t

ScalarRandom(handle, state) == <<handle, state[handle]>>

RngAdvance(handle, state) == [state EXCEPT ![handle] = @ + 1]

----------------------------------------------------------------------------
(* bulletproofs::r1cs::Prover *)

\* Prover::new: no committed values, no constraints, nothing proved
ProverNew ==
    [v |-> <<>>, v_blinding |-> <<>>, V |-> <<>>, gadget |-> <<>>, proved |-> FALSE]

\* the Pedersen commitment v*B + r*B_blinding (a CompressedRistretto); it is
\* binding, so it is kept as the pair it commits to
PedersenCommit(v, r) == [value |-> v, blinding |-> r]

\* CompressedRistretto::to_bytes: the 32 bytes of the compressed point
CompressedToBytes(c) ==
    <<c.value, c.blinding[1], c.blinding[2]>> \o Zeros(CommitmentLen - 3)

\* Variable::Committed(i), i the 0-based index of the committed value
Committed(i) == [kind |-> "Committed", index |-> i]

\* Prover::commit(v, v_blinding) -> (CompressedRistretto, Variable)
ProverCommit(p, v, r) ==
    [prover |-> [p EXCEPT !.v = Append(@, v),
                          !.v_blinding = Append(@, r),
                          !.V = Append(@, PedersenCommit(v, r))],
     commitment |-> PedersenCommit(v, r),
     var |-> Committed(Len(p.v))]

\* From<Variable> and From<Scalar> for LinearCombination
LcVar(var) == [kind |-> "var", var |-> var]
LcScalar(s) == [kind |-> "scalar", scalar |-> s]

----------------------------------------------------------------------------
(* Proof::prove, src/src/blindbid/proof.rs:36-90 *)

\* line 55: the array [d, k, y, y_inv]
WitnessArrayNoY(w) == <<w.d, w.k, w.y_inv>>
WitnessArray(w) == <<w.d, w.k, w.y, w.y_inv>>

\* line 57: Scalar::random(&mut blinding_rng): the blinding of a witness
\* commitment and the generator after the draw
WitnessBlinding(t, state) ==
    [r |-> ScalarRandom(thread_rng(t), state), rng |-> RngAdvance(thread_rng(t), state)]

\* line 64: Scalar::random(&mut thread_rng()): the blinding of a toggle
\* commitment and the generator after the draw
ToggleBlindingFromCopy(t, state) ==
    [r |-> ScalarRandom(thread_rng(t), state), rng |-> state]
ToggleBlinding(t, state) ==
    [r |-> ScalarRandom(thread_rng(t), state), rng |-> RngAdvance(thread_rng(t), state)]

\* line 63: Scalar::from((x == toggle) as u8), x the 0-based position
ToggleBitLe(x, toggle) == IF x <= toggle THEN 1 ELSE 0
ToggleBit(x, toggle) == IF x = toggle THEN 1 ELSE 0

\* line 70: l_v, the public list as constant linear combinations
PublicConstants(pub_list) == [i \in 1..Len(pub_list) |-> LcScalar(pub_list[i])]

\* lines 73-84: the arguments of the proof_gadget call
GadgetArgsY(vars, w, tv, lv) ==
    [d |-> LcVar(vars[1]), k |-> LcVar(vars[2]), y_inv |-> LcVar(vars[3]),
     q |-> LcScalar(w.q), z_img |-> LcScalar(w.z_img), seed |-> LcScalar(w.seed),
     constants |-> "CONSTANTS", toggle |-> tv, items |-> lv]
GadgetArgs(vars, w, tv, lv) ==
    [d |-> LcVar(vars[1]), k |-> LcVar(vars[2]), y_inv |-> LcVar(vars[4]),
     q |-> LcScalar(w.q), z_img |-> LcScalar(w.z_img), seed |-> LcScalar(w.seed),
     constants |-> "CONSTANTS", toggle |-> tv, items |-> lv]

\* the R1CSProof the prover engine returns and R1CSProof::to_bytes: the
\* Fiat-Shamir transcript binds every commitment, so the bytes are modelled as
\* a digest that keeps two bytes of each commitment
R1CSProofOf(p) == [transcript |-> p.V]
ProofToBytes(proof) ==
    Flatten([i \in 1..Len(proof.transcript) |->
                <<proof.transcript[i].blinding[1], proof.transcript[i].blinding[2]>>])

\* Prover::prove(&bp_gens): with a toggle inside a non-empty list the engine
\* returns the proof; otherwise it may return the proof or an R1CSError
ProverProveOutcomes(p, args) ==
    IF Len(args.pub_list) >= 1 /\ args.toggle < Len(args.pub_list)
    THEN { [ok |-> TRUE, proof |-> R1CSProofOf(p)] }
    ELSE { [ok |-> TRUE, proof |-> R1CSProofOf(p)], [ok |-> FALSE, err |-> "R1CS"] }

\* Proof::new
ProofNew(proof, commitments, tc) ==
    [proof |-> proof, commitments |-> commitments, t_c |-> tc]

NoResult == [tag |-> "none"]
Ok(x) == [tag |-> "Ok", val |-> x]
Err(e) == [tag |-> "Err", err |-> e]
Panic == [tag |-> "panic"]

None == [tag |-> "None"]

----------------------------------------------------------------------------
(* dusk_tlv: a record is a one-byte width w in {1, 2, 4, 8}, the payload    *)
(* length as w little-endian bytes, then the payload; an unsigned integer  *)
(* is a width and that many little-endian bytes; a list is one record      *)
(* whose payload is the concatenation of its elements' records.            *)

RECURSIVE ToLE(_, _)
ToLE(n, w) == IF w = 0 THEN <<>> ELSE <<n % 256>> \o ToLE(n \div 256, w - 1)

RECURSIVE FromLE(_)
FromLE(bytes) == IF bytes = <<>> THEN 0 ELSE Head(bytes) + 256 * FromLE(Tail(bytes))

WidthOf(n) == IF n < 256 THEN 1 ELSE IF n < 65536 THEN 2 ELSE 4

Drop(s, n) == SubSeq(s, n + 1, Len(s))

\* TlvWriter::write_usize
UsizeRecord(n) == <<WidthOf(n)>> \o ToLE(n, WidthOf(n))

\* TlvWriter::write
TlvRecord(bytes) == UsizeRecord(Len(bytes)) \o bytes

\* TlvWriter::write_list
TlvListRecord(items) == TlvRecord(Flatten([i \in 1..Len(items) |-> TlvRecord(items[i])]))

\* TlvReader::read_usize
ReadUsize(stream) ==
    IF stream = <<>> THEN Err("Io:UnexpectedEof")
    ELSE IF stream[1] \notin {1, 2, 4, 8} THEN Err("Io:InvalidData")
    ELSE IF Len(stream) < 1 + stream[1] THEN Err("Io:UnexpectedEof")
    ELSE Ok([val |-> FromLE(SubSeq(stream, 2, 1 + stream[1])),
             rest |-> Drop(stream, 1 + stream[1])])

\* TlvReader::read: one record's payload
TlvRead(stream) ==
    LET n == ReadUsize(stream)
    IN IF n.tag = "Err" THEN n
       ELSE IF Len(n.val.rest) < n.val.val THEN Err("Io:UnexpectedEof")
       ELSE Ok([val |-> SubSeq(n.val.rest, 1, n.val.val),
                rest |-> Drop(n.val.rest, n.val.val)])

\* Iterator::next of TlvReader: None once the stream is exhausted
TlvNext(stream) == IF stream = <<>> THEN None ELSE TlvRead(stream)

\* every record of a byte string, or the first error
RECURSIVE ReadAll(_)
ReadAll(bytes) ==
    IF bytes = <<>> THEN Ok(<<>>)
    ELSE LET r == TlvRead(bytes)
         IN IF r.tag = "Err" THEN r
            ELSE LET more == ReadAll(r.val.rest)
                 IN IF more.tag = "Err" THEN more
                    ELSE Ok(<<r.val.val>> \o more.val)

\* TlvReader::read_list::<Vec<u8>>
TlvReadList(stream) ==
    LET r == TlvRead(stream)
    IN IF r.tag = "Err" THEN r
       ELSE LET items == ReadAll(r.val.val)
            IN IF items.tag = "Err" THEN items
               ELSE Ok([val |-> items.val, rest |-> r.val.rest])

----------------------------------------------------------------------------
(* bincode and curve25519_dalek::scalar::Scalar: a Scalar is serialized as *)
(* its 32 canonical little-endian bytes; deserialization takes the first   *)
(* 32 bytes and rejects a value that is not below the group order.         *)

\* the group order 2^252 + 27742317777372353535851937790883648493, little-endian
BasepointOrder ==
    <<237, 211, 245, 92, 26, 99, 18, 88, 214, 156, 247, 162, 222, 249, 222, 20,
      0, 0, 0, 0, 0, 0, 0, 0, 0, 0, 0, 0, 0, 0, 0, 16>>

IsCanonical(b) ==
    \E i \in 1..CommitmentLen :
        /\ b[i] < BasepointOrder[i]
        /\ \A j \in (i + 1)..CommitmentLen : b[j] = BasepointOrder[j]

\* bincode::serialize(&Scalar)
SerializeScalar(s) == ToLE(s, CommitmentLen)

\* bincode::deserialize::<Scalar>
DeserializeScalar(bytes) ==
    IF Len(bytes) < CommitmentLen THEN Err("Bincode")
    ELSE IF ~IsCanonical(SubSeq(bytes, 1, CommitmentLen)) THEN Err("Bincode")
    ELSE Ok(FromLE(SubSeq(bytes, 1, CommitmentLen)))

\* crate::Error: the kind of failure an error value stands for
ErrorClass(e) ==
    CASE e \in {"UnexpectedEof", "Io:UnexpectedEof"} -> "truncation"
      [] e \in {"Bincode", "Io:InvalidData"} -> "decoding"
      [] e = "R1CS" -> "proving"

----------------------------------------------------------------------------
(* Proof::try_from_reader_variables, src/src/blindbid/proof.rs:92-117 *)

\* lines 93-105: scalars.next().ok_or(Error::UnexpectedEof)??
NextScalar(stream) ==
    LET it == TlvNext(stream)
    IN IF it.tag = "None" THEN Err("UnexpectedEof")
       ELSE IF it.tag = "Err" THEN it
       ELSE LET s == DeserializeScalar(it.val.val)
            IN IF s.tag = "Err" THEN s
               ELSE Ok([val |-> s.val, rest |-> it.val.rest])

\* lines 109-112: every element of the list deserialized in order, or the
\* first error
RECURSIVE DecodeListLenient(_)
DecodeListLenient(items) ==
    IF items = <<>> THEN Ok(<<>>)
    ELSE LET s == DeserializeScalar(Head(items))
             more == DecodeListLenient(Tail(items))
         IN IF s.tag = "Err" THEN more ELSE Ok(<<s.val>> \o more.val)
RECURSIVE DecodeList(_)
DecodeList(items) ==
    IF items = <<>> THEN Ok(<<>>)
    ELSE LET s == DeserializeScalar(Head(items))
         IN IF s.tag = "Err" THEN s
            ELSE LET more == DecodeList(Tail(items))
                 IN IF more.tag = "Err" THEN more ELSE Ok(<<s.val>> \o more.val)

\* line 114: reader.read_usize()?
TryToggleOrDefault(stream) ==
    LET r == ReadUsize(stream)
    IN IF r.tag = "Err" THEN Ok([val |-> 0, rest |-> stream]) ELSE r
TryToggle(stream) == ReadUsize(stream)

\* lines 99-105 and 116: the seven scalars in the parameter positions of prove
BindWitnessSwapped(s) ==
    [d |-> s[1], k |-> s[2], y |-> s[4], y_inv |-> s[3], q |-> s[5],
     z_img |-> s[6], seed |-> s[7]]
BindWitness(s) ==
    [d |-> s[1], k |-> s[2], y |-> s[3], y_inv |-> s[4], q |-> s[5],
     z_img |-> s[6], seed |-> s[7]]

----------------------------------------------------------------------------
(* impl TryInto<Vec<u8>> for Proof, src/src/blindbid/proof.rs:120-145 *)

\* lines 131 and 138: c.to_bytes()[..].to_vec()
CommitmentBytesShort(c) == SubSeq(CompressedToBytes(c), 1, CommitmentLen - 1)
CommitmentBytes(c) == CompressedToBytes(c)

BytesOfAll(cs) == [i \in 1..Len(cs) |-> CommitmentBytes(cs[i])]

\* lines 127-141: what the three writes append, in the order they run
TryIntoWritesSwapped(p) ==
    <<TlvRecord(ProofToBytes(p.proof)),
      TlvListRecord(BytesOfAll(p.t_c)),
      TlvListRecord(BytesOfAll(p.commitments))>>
TryIntoWrites(p) ==
    <<TlvRecord(ProofToBytes(p.proof)),
      TlvListRecord(BytesOfAll(p.commitments)),
      TlvListRecord(BytesOfAll(p.t_c))>>

----------------------------------------------------------------------------
(* The witness bundles handed to try_from_reader_variables: the nine       *)
(* records of a bundle, one of them possibly malformed, possibly cut.      *)

ScalarPayload(s, kind) ==
    CASE kind = "ok" -> SerializeScalar(s)
      [] kind = "short" -> SubSeq(SerializeScalar(s), 1, 5)
      [] kind = "long" -> SerializeScalar(s) \o <<1>>
      [] kind = "noncanonical" -> [i \in 1..CommitmentLen |-> 255]

ScalarKinds == {"short", "long", "noncanonical"}

KindAt(src, pos) == IF src.pos = pos THEN src.kind ELSE "ok"

BundleRecords(src) ==
    LET a == src.a
        s == <<a.w.d, a.w.k, a.w.y, a.w.y_inv, a.w.q, a.w.z_img, a.w.seed>>
        l == a.pub_list
        elems == [j \in 1..Len(l) |->
                    TlvRecord(ScalarPayload(l[j], IF j = 1 THEN KindAt(src, 8) ELSE "ok"))]
    IN [i \in 1..7 |-> TlvRecord(ScalarPayload(s[i], KindAt(src, i)))]
       \o <<TlvRecord(Flatten(elems))>>
       \o <<IF KindAt(src, 9) = "ok" THEN UsizeRecord(a.toggle)
            ELSE <<3, a.toggle, 0, 0>>>>

BundleStream(src) ==
    LET recs == BundleRecords(src)
    IN Flatten(SubSeq(recs, 1, src.keep))
       \o (IF src.keep < 9
           THEN LET next == recs[src.keep + 1]
                IN SubSeq(next, 1, IF src.tail < Len(next) THEN src.tail
                                   ELSE Len(next) - 1)
           ELSE <<>>)

BaseArgs == { a \in ProveArgs : a.toggle = 0 }

BundleSources ==
    { [a |-> a, pos |-> 0, kind |-> "ok", keep |-> 9, tail |-> 0] : a \in ProveArgs }
    \cup { [a |-> a, pos |-> 0, kind |-> "ok", keep |-> k, tail |-> n] :
             a \in BaseArgs, k \in 0..8, n \in {0, 1, 3} }
    \cup { [a |-> a, pos |-> p, kind |-> c, keep |-> 9, tail |-> 0] :
             a \in BaseArgs, p \in 1..7, c \in ScalarKinds }
    \cup { [a |-> a, pos |-> 8, kind |-> c, keep |-> 9, tail |-> 0] :
             a \in { b \in BaseArgs : b.pub_list # <<>> }, c \in ScalarKinds }
    \cup { [a |-> a, pos |-> 9, kind |-> "badwidth", keep |-> 9, tail |-> 0] :
             a \in BaseArgs }

NoSource == [a |-> NoArgs, pos |-> 0, kind |-> "ok", keep |-> 0, tail |-> 0]

----------------------------------------------------------------------------
VARIABLES
    pc,          \* per thread: the place in the code
    args,        \* per thread: the arguments of the running Proof::prove call
    rng,         \* per thread: the state of the thread-local generator
    prover,      \* per thread: the bulletproofs Prover of the running call
    commitments, \* per thread: the local `commitments` (line 55)
    vars,        \* per thread: the local `vars` (line 55)
    t_c,         \* per thread: the local `t_c` (line 60)
    t_v,         \* per thread: the local `t_v` (line 60)
    l_v,         \* per thread: the local `l_v` (line 70)
    result,      \* per thread: what the outermost call returned
    history,     \* per thread: arguments and result of every finished prove call
    started,     \* number of prove calls started so far
    used,        \* every blinding factor handed to Prover::commit so far
    reused,      \* whether Prover::commit was handed a blinding factor twice
    reader,      \* per thread: the stream and locals of try_from_reader_variables
    writer,      \* per thread: the TlvWriter of try_into
    encoded,     \* per thread: what try_into returned
    decoded      \* per thread: what a generic record reader made of `encoded`

proveVars == <<args, rng, prover, commitments, vars, t_c, t_v, l_v, history,
               started, used, reused>>

codecVars == <<writer, encoded, decoded>>

vars_all == <<pc, result, proveVars, reader, codecVars>>

NoReader ==
    [src |-> NoSource, input |-> <<>>, scalars |-> <<>>, pub_list |-> <<>>,
     toggle |-> 0, nread |-> 0]

NoWriter == [buf |-> <<>>, writes |-> 0]

Init ==
    /\ pc = [t \in Threads |-> "idle"]
    /\ args = [t \in Threads |-> NoArgs]
    /\ rng = [t \in Threads |-> 0]
    /\ prover = [t \in Threads |-> ProverNew]
    /\ commitments = [t \in Threads |-> <<>>]
    /\ vars = [t \in Threads |-> <<>>]
    /\ t_c = [t \in Threads |-> <<>>]
    /\ t_v = [t \in Threads |-> <<>>]
    /\ l_v = [t \in Threads |-> <<>>]
    /\ result = [t \in Threads |-> NoResult]
    /\ history = [t \in Threads |-> <<>>]
    /\ started = 0
    /\ used = {}
    /\ reused = FALSE
    /\ reader = [t \in Threads |-> NoReader]
    /\ writer = [t \in Threads |-> NoWriter]
    /\ encoded = [t \in Threads |-> NoResult]
    /\ decoded = [t \in Threads |-> NoResult]

----------------------------------------------------------------------------
(* Proof::prove *)

\* lines 47-53: entry of Proof::prove: fresh generators, transcript and prover
EnterProve(t, a) ==
    /\ started' = started + 1
    /\ args' = [args EXCEPT ![t] = a]
    /\ prover' = [prover EXCEPT ![t] = ProverNew]
    /\ commitments' = [commitments EXCEPT ![t] = <<>>]
    /\ vars' = [vars EXCEPT ![t] = <<>>]
    /\ t_c' = [t_c EXCEPT ![t] = <<>>]
    /\ t_v' = [t_v EXCEPT ![t] = <<>>]
    /\ l_v' = [l_v EXCEPT ![t] = <<>>]
    /\ result' = [result EXCEPT ![t] = NoResult]
    /\ pc' = [pc EXCEPT ![t] = "commit_w"]
    /\ UNCHANGED <<rng, history, used, reused>>

\* a caller invokes Proof::prove on thread t
CallProve(t) ==
    /\ pc[t] = "idle"
    /\ \E a \in ProveArgs : EnterProve(t, a)
    /\ UNCHANGED <<reader, codecVars>>

\* lines 55-58: one iteration of the map over [d, k, y, y_inv]
CommitWitness(t) ==
    /\ pc[t] = "commit_w"
    /\ Len(commitments[t]) < Len(WitnessArray(args[t].w))
    /\ LET v == WitnessArray(args[t].w)[Len(commitments[t]) + 1]
           b == WitnessBlinding(t, rng)
           c == ProverCommit(prover[t], v, b.r)
       IN /\ rng' = b.rng
          /\ prover' = [prover EXCEPT ![t] = c.prover]
          /\ commitments' = [commitments EXCEPT ![t] = Append(@, c.commitment)]
          /\ vars' = [vars EXCEPT ![t] = Append(@, c.var)]
          /\ reused' = (reused \/ b.r \in used)
          /\ used' = used \cup {b.r}
    /\ UNCHANGED <<pc, args, t_c, t_v, l_v, result, history, started, reader, codecVars>>

\* line 58: the map is exhausted and unzip returns
WitnessDone(t) ==
    /\ pc[t] = "commit_w"
    /\ Len(commitments[t]) = Len(WitnessArray(args[t].w))
    /\ pc' = [pc EXCEPT ![t] = "commit_t"]
    /\ UNCHANGED <<result, proveVars, reader, codecVars>>

\* lines 60-67: one iteration of the map over 0..pub_list.len()
CommitToggle(t) ==
    /\ pc[t] = "commit_t"
    /\ Len(t_c[t]) < Len(args[t].pub_list)
    /\ LET x == Len(t_c[t])
           b == ToggleBlinding(t, rng)
           c == ProverCommit(prover[t], ToggleBit(x, args[t].toggle), b.r)
       IN /\ rng' = b.rng
          /\ prover' = [prover EXCEPT ![t] = c.prover]
          /\ t_c' = [t_c EXCEPT ![t] = Append(@, c.commitment)]
          /\ t_v' = [t_v EXCEPT ![t] = Append(@, c.var)]
          /\ reused' = (reused \/ b.r \in used)
          /\ used' = used \cup {b.r}
    /\ UNCHANGED <<pc, args, commitments, vars, l_v, result, history, started,
                   reader, codecVars>>

\* lines 67-70: the map is exhausted, unzip returns and l_v is collected
PublicList(t) ==
    /\ pc[t] = "commit_t"
    /\ Len(t_c[t]) = Len(args[t].pub_list)
    /\ l_v' = [l_v EXCEPT ![t] = PublicConstants(args[t].pub_list)]
    /\ pc' = [pc EXCEPT ![t] = "gadget"]
    /\ UNCHANGED <<args, rng, prover, commitments, vars, t_c, t_v, result,
                   history, started, used, reused, reader, codecVars>>

\* Proof::prove returns r, which is also what try_from_reader_variables
\* returns (line 116 is its tail expression)
ReturnProve(t, r) ==
    /\ result' = [result EXCEPT ![t] = r]
    /\ history' = [history EXCEPT ![t] = Append(@, [args |-> args[t], result |-> r])]
    /\ pc' = [pc EXCEPT ![t] = "done"]

\* lines 73-84: proof_gadget(&mut prover, vars[0], vars[1], vars[3], ...);
\* vars[3] is bounds-checked and panics on a shorter vector
Gadget(t) ==
    /\ pc[t] = "gadget"
    /\ IF Len(vars[t]) < 4
       THEN /\ ReturnProve(t, Panic)
            /\ UNCHANGED prover
       ELSE /\ prover' = [prover EXCEPT ![t].gadget =
                             Append(@, [at |-> Len(prover[t].v),
                                        call |-> GadgetArgs(vars[t], args[t].w,
                                                            t_v[t], l_v[t])])]
            /\ pc' = [pc EXCEPT ![t] = "engine"]
            /\ UNCHANGED <<result, history>>
    /\ UNCHANGED <<args, rng, commitments, vars, t_c, t_v, l_v, started, used,
                   reused, reader, codecVars>>

\* lines 87-89: prover.prove(&bp_gens)? and Ok(Proof::new(proof, commitments, t_c))
MakeProof(t) ==
    /\ pc[t] = "engine"
    /\ \E o \in ProverProveOutcomes(prover[t], args[t]) :
          IF o.ok
          THEN ReturnProve(t, Ok(ProofNew(o.proof, commitments[t], t_c[t])))
          ELSE ReturnProve(t, Err(o.err))
    /\ prover' = [prover EXCEPT ![t].proved = TRUE]
    /\ UNCHANGED <<args, rng, commitments, vars, t_c, t_v, l_v, started, used,
                   reused, reader, codecVars>>

----------------------------------------------------------------------------
(* Proof::try_from_reader_variables *)

\* an error leaves try_from_reader_variables through `?`
Fail(t, e) ==
    /\ result' = [result EXCEPT ![t] = e]
    /\ pc' = [pc EXCEPT ![t] = "done"]

\* a caller invokes try_from_reader_variables on a stream (lines 92-97)
CallTryFromReader(t) ==
    /\ pc[t] = "idle"
    /\ \E src \in BundleSources :
          reader' = [reader EXCEPT ![t] =
                        [NoReader EXCEPT !.src = src, !.input = BundleStream(src)]]
    /\ pc' = [pc EXCEPT ![t] = "read_scalars"]
    /\ UNCHANGED <<result, proveVars, codecVars>>

\* lines 99-105: one of the seven statements `let .. = scalars.next()..??`
ReadScalar(t) ==
    /\ pc[t] = "read_scalars"
    /\ LET r == NextScalar(reader[t].input)
       IN IF r.tag = "Err"
          THEN /\ Fail(t, r)
               /\ reader' = [reader EXCEPT ![t].nread = @ + 1]
          ELSE /\ reader' = [reader EXCEPT ![t].scalars = Append(@, r.val.val),
                                           ![t].input = r.val.rest,
                                           ![t].nread = @ + 1]
               /\ pc' = [pc EXCEPT ![t] =
                            IF Len(reader[t].scalars) + 1 = 7
                            THEN "read_list" ELSE "read_scalars"]
               /\ UNCHANGED result
    /\ UNCHANGED <<proveVars, codecVars>>

\* lines 107-112: read_list()? and the loop that deserializes its elements
ReadList(t) ==
    /\ pc[t] = "read_list"
    /\ LET r == TlvReadList(reader[t].input)
           l == IF r.tag = "Err" THEN r ELSE DecodeList(r.val.val)
       IN IF l.tag = "Err"
          THEN /\ Fail(t, l)
               /\ reader' = [reader EXCEPT ![t].nread = @ + 1]
          ELSE /\ reader' = [reader EXCEPT ![t].pub_list = l.val,
                                           ![t].input = r.val.rest,
                                           ![t].nread = @ + 1]
               /\ pc' = [pc EXCEPT ![t] = "read_toggle"]
               /\ UNCHANGED result
    /\ UNCHANGED <<proveVars, codecVars>>

\* line 114: let toggle = reader.read_usize()?
ReadToggle(t) ==
    /\ pc[t] = "read_toggle"
    /\ LET r == TryToggle(reader[t].input)
       IN IF r.tag = "Err"
          THEN /\ Fail(t, r)
               /\ reader' = [reader EXCEPT ![t].nread = @ + 1]
          ELSE /\ reader' = [reader EXCEPT ![t].toggle = r.val.val,
                                           ![t].input = r.val.rest,
                                           ![t].nread = @ + 1]
               /\ pc' = [pc EXCEPT ![t] = "call_prove"]
               /\ UNCHANGED result
    /\ UNCHANGED <<proveVars, codecVars>>

\* line 116: Proof::prove(d, k, y, y_inv, q, z_img, seed, pub_list, toggle)
InvokeProve(t) ==
    /\ pc[t] = "call_prove"
    /\ EnterProve(t, [w |-> BindWitness(reader[t].scalars),
                     pub_list |-> reader[t].pub_list,
                     toggle |-> reader[t].toggle])
    /\ UNCHANGED <<reader, codecVars>>

----------------------------------------------------------------------------
(* impl TryInto<Vec<u8>> for Proof *)

\* lines 123-125: try_into on the Proof a call returned; a fresh TlvWriter
TryInto(t) ==
    /\ pc[t] = "done"
    /\ result[t].tag = "Ok"
    /\ writer' = [writer EXCEPT ![t] = NoWriter]
    /\ pc' = [pc EXCEPT ![t] = "write"]
    /\ UNCHANGED <<result, proveVars, reader, encoded, decoded>>

\* lines 127-141: the next of the three writes
Write(t) ==
    /\ pc[t] = "write"
    /\ writer[t].writes < Len(TryIntoWrites(result[t].val))
    /\ writer' = [writer EXCEPT
                    ![t].buf = @ \o TryIntoWrites(result[t].val)[writer[t].writes + 1],
                    ![t].writes = @ + 1]
    /\ UNCHANGED <<pc, result, proveVars, reader, encoded, decoded>>

\* line 143: Ok(buf.into_inner())
IntoInner(t) ==
    /\ pc[t] = "write"
    /\ writer[t].writes = Len(TryIntoWrites(result[t].val))
    /\ encoded' = [encoded EXCEPT ![t] = Ok(writer[t].buf)]
    /\ pc' = [pc EXCEPT ![t] = "encoded"]
    /\ UNCHANGED <<result, proveVars, reader, writer, decoded>>

\* a generic record reader: one blob, then two lists of blobs
GenericDecode(stream) ==
    LET p == TlvRead(stream)
        c == IF p.tag = "Err" THEN p ELSE TlvReadList(p.val.rest)
        g == IF c.tag = "Err" THEN c ELSE TlvReadList(c.val.rest)
    IN IF g.tag = "Err" THEN g
       ELSE Ok([proof |-> p.val.val, commitments |-> c.val.val, t_c |-> g.val.val,
                rest |-> g.val.rest])

\* the receiver reads the encoded proof back
ReadBack(t) ==
    /\ pc[t] = "encoded"
    /\ decoded' = [decoded EXCEPT ![t] = GenericDecode(encoded[t].val)]
    /\ pc' = [pc EXCEPT ![t] = "decoded"]
    /\ UNCHANGED <<result, proveVars, reader, writer, encoded>>

----------------------------------------------------------------------------
(* One caller, one call: Proof::prove or try_from_reader_variables, then   *)
(* the encoding of the returned Proof and its reading back.                *)

Main == CHOOSE t \in Threads : \A u \in Threads : t <= u

Next ==
    \/ CallProve(Main)
    \/ CommitWitness(Main)
    \/ WitnessDone(Main)
    \/ CommitToggle(Main)
    \/ PublicList(Main)
    \/ Gadget(Main)
    \/ MakeProof(Main)
    \/ CallTryFromReader(Main)
    \/ ReadScalar(Main)
    \/ ReadList(Main)
    \/ ReadToggle(Main)
    \/ InvokeProve(Main)
    \/ TryInto(Main)
    \/ Write(Main)
    \/ IntoInner(Main)
    \/ ReadBack(Main)

Spec == Init /\ [][Next]_vars_all

----------------------------------------------------------------------------
(* Several threads, each calling Proof::prove repeatedly. *)

ConcurrentArgs == { a \in ProveArgs : a.toggle = 0 }

\* a thread invokes Proof::prove, for the first time or again
ProveAgain(t) ==
    /\ pc[t] \in {"idle", "done"}
    /\ started < MaxCalls
    /\ \E a \in ConcurrentArgs : EnterProve(t, a)
    /\ UNCHANGED <<reader, codecVars>>

NextConcurrent ==
    \E t \in Threads :
        \/ ProveAgain(t)
        \/ CommitWitness(t)
        \/ WitnessDone(t)
        \/ CommitToggle(t)
        \/ PublicList(t)
        \/ Gadget(t)
        \/ MakeProof(t)

SpecConcurrent == Init /\ [][NextConcurrent]_vars_all

----------------------------------------------------------------------------
(* Properties *)

InRange(a) == Len(a.pub_list) >= 1 /\ a.toggle < Len(a.pub_list)

InProve(t) == pc[t] \in {"commit_w", "commit_t", "gadget", "engine"}

\* C1: a finished Proof::prove call whose public list has N >= 1 entries and
\* whose toggle is below N returned Ok, with exactly 4 entries in commitments
\* and exactly N entries in t_c.
C1_ProveReturnsFourAndN ==
    \A t \in Threads : \A i \in 1..Len(history[t]) :
        LET h == history[t][i]
        IN InRange(h.args) =>
              /\ h.result.tag = "Ok"
              /\ Len(h.result.val.commitments) = 4
              /\ Len(h.result.val.t_c) = Len(h.args.pub_list)

C1_Witness ==
    \E t \in Threads :
        /\ pc[t] = "done"
        /\ Len(history[t]) = 1
        /\ Len(history[t][1].args.pub_list) = 2
        /\ history[t][1].args.toggle = 1
        /\ history[t][1].result.tag = "Ok"

\* C2: in a Proof::prove call the value committed for toggle position x
\* (0-based) is 1 when x = toggle and 0 otherwise; the x-th toggle commitment
\* and the x-th toggle opening variable are those of the (4 + x)-th value the
\* prover committed; and once all positions are committed with 0 <= toggle < N,
\* exactly one position commits to 1, and it is position toggle.
C2_ToggleOneHot ==
    \A t \in Threads :
        InProve(t) =>
            /\ Len(t_v[t]) = Len(t_c[t])
            /\ \A i \in 1..Len(t_c[t]) :
                  /\ t_c[t][i].value = (IF i - 1 = args[t].toggle THEN 1 ELSE 0)
                  /\ t_v[t][i] = Committed(4 + i - 1)
                  /\ prover[t].V[4 + i] = t_c[t][i]
                  /\ prover[t].v[4 + i] = t_c[t][i].value
            /\ (pc[t] \in {"gadget", "engine"} /\ InRange(args[t])) =>
                  /\ Len(t_c[t]) = Len(args[t].pub_list)
                  /\ { i \in 1..Len(t_c[t]) : t_c[t][i].value = 1 }
                        = { args[t].toggle + 1 }

C2_Witness ==
    \E t \in Threads :
        /\ pc[t] = "gadget"
        /\ Len(args[t].pub_list) = 2
        /\ args[t].toggle = 1
        /\ t_c[t][1].value = 0
        /\ t_c[t][2].value = 1

\* C9 as claimed: the gadget call receives the opening variables of all four
\* committed witness values d, k, y and y_inv.
C9_GadgetGetsAllFourVars ==
    \A t \in Threads : \A g \in 1..Len(prover[t].gadget) :
        { LcVar(Committed(i)) : i \in 0..3 }
            \subseteq { prover[t].gadget[g].call.d, prover[t].gadget[g].call.k,
                        prover[t].gadget[g].call.y_inv }

\* C9 as amended: Proof::prove invokes the relation gadget exactly once, after
\* all 4 + N commitments and before the prover engine is asked for the proof,
\* passing the opening variables of d, k and y_inv only (the 0th, 1st and 3rd
\* committed values; the variable of y is committed but not passed), q, z_img
\* and seed as constants, the constant list, the N toggle opening variables
\* in position order and the public list as constants in list order.
C9_GadgetCalledOnceWithThreeVars ==
    \A t \in Threads :
        /\ pc[t] \in {"commit_w", "commit_t", "gadget"} =>
              prover[t].gadget = <<>> /\ ~prover[t].proved
        /\ pc[t] = "engine" => ~prover[t].proved
        /\ prover[t].proved => Len(prover[t].gadget) = 1
        /\ pc[t] = "engine" =>
              /\ Len(prover[t].gadget) = 1
              /\ LET g == prover[t].gadget[1]
                     n == Len(args[t].pub_list)
                 IN /\ g.at = 4 + n
                    /\ Len(prover[t].v) = 4 + n
                    /\ g.call.d = LcVar(Committed(0))
                    /\ g.call.k = LcVar(Committed(1))
                    /\ g.call.y_inv = LcVar(Committed(3))
                    /\ prover[t].v[1] = args[t].w.d
                    /\ prover[t].v[2] = args[t].w.k
                    /\ prover[t].v[4] = args[t].w.y_inv
                    /\ g.call.q = LcScalar(args[t].w.q)
                    /\ g.call.z_img = LcScalar(args[t].w.z_img)
                    /\ g.call.seed = LcScalar(args[t].w.seed)
                    /\ g.call.constants = "CONSTANTS"
                    /\ g.call.toggle = [i \in 1..n |-> Committed(4 + i - 1)]
                    /\ g.call.items = [i \in 1..n |-> LcScalar(args[t].pub_list[i])]

C9_Witness ==
    \E t \in Threads :
        /\ pc[t] = "engine"
        /\ Len(args[t].pub_list) = 2
        /\ Len(prover[t].gadget) = 1
        /\ prover[t].gadget[1].call.y_inv = LcVar(Committed(3))

\* C10: a Proof::prove call whose toggle is not below N (every toggle when
\* the list is empty) does not panic; it builds exactly N toggle commitments,
\* every one to the value 0, and hands their N variables to the gadget; when
\* it fails, the error is the one the prover engine returned.
C10_OutOfRangeToggleAllZero ==
    \A t \in Threads :
        /\ (InProve(t) /\ ~InRange(args[t])) =>
              /\ \A i \in 1..Len(t_c[t]) :
                    t_c[t][i].value = 0 /\ prover[t].v[4 + i] = 0
              /\ pc[t] = "engine" =>
                    /\ Len(t_c[t]) = Len(args[t].pub_list)
                    /\ Len(prover[t].gadget[1].call.toggle) = Len(args[t].pub_list)
                    /\ \A i \in 1..Len(args[t].pub_list) :
                          prover[t].v[prover[t].gadget[1].call.toggle[i].index + 1] = 0
        /\ \A i \in 1..Len(history[t]) :
              LET h == history[t][i]
              IN ~InRange(h.args) =>
                    /\ h.result.tag \in {"Ok", "Err"}
                    /\ h.result.tag = "Ok" =>
                          /\ Len(h.result.val.t_c) = Len(h.args.pub_list)
                          /\ \A j \in 1..Len(h.result.val.t_c) :
                                h.result.val.t_c[j].value = 0
                    /\ h.result.tag = "Err" =>
                          h.result.err = "R1CS" /\ prover[t].proved

C10_Witness ==
    \E t \in Threads :
        /\ pc[t] = "done"
        /\ Len(history[t]) = 1
        /\ Len(history[t][1].args.pub_list) = 2
        /\ history[t][1].args.toggle = 2
        /\ history[t][1].result.tag = "Ok"
        /\ Len(history[t][1].result.val.t_c) = 2

\* C8: every blinding factor handed to Prover::commit is used for one
\* commitment only, within a call, across the sequential calls of a thread
\* and across threads; and two finished calls with the same arguments
\* returned commitments that differ at every position, in their encoded
\* bytes too, and different proof bytes.
Finished == { c \in Threads \X (1..MaxCalls) : c[2] <= Len(history[c[1]]) }

AllCommitments(p) == p.commitments \o p.t_c

C8_NoBlindingReuse ==
    /\ ~reused
    /\ \A t, u \in Threads :
          \A i \in 1..Len(prover[t].v_blinding), j \in 1..Len(prover[u].v_blinding) :
              (<<t, i>> # <<u, j>>) => prover[t].v_blinding[i] # prover[u].v_blinding[j]
    /\ \A c1, c2 \in Finished :
          LET h1 == history[c1[1]][c1[2]]
              h2 == history[c2[1]][c2[2]]
          IN (c1 # c2 /\ h1.result.tag = "Ok" /\ h2.result.tag = "Ok") =>
                /\ \A i \in 1..Len(AllCommitments(h1.result.val)),
                      j \in 1..Len(AllCommitments(h2.result.val)) :
                        AllCommitments(h1.result.val)[i].blinding
                            # AllCommitments(h2.result.val)[j].blinding
                /\ h1.args = h2.args =>
                      /\ \A i \in 1..Len(AllCommitments(h1.result.val)) :
                            /\ AllCommitments(h1.result.val)[i]
                                  # AllCommitments(h2.result.val)[i]
                            /\ CompressedToBytes(AllCommitments(h1.result.val)[i])
                                  # CompressedToBytes(AllCommitments(h2.result.val)[i])
                      /\ ProofToBytes(h1.result.val.proof)
                            # ProofToBytes(h2.result.val.proof)

C8_Witness ==
    \E t, u \in Threads :
        /\ t # u
        /\ pc[t] = "engine"
        /\ pc[u] = "engine"
        /\ args[t] = args[u]
        /\ Len(args[t].pub_list) = 2
        /\ Len(history[t]) = 0
        /\ Len(history[u]) = 0

\* C3: the bytes try_into returns for the Proof of a prove call are exactly
\* three records: the proof bytes; a list of 4 elements, the 32-byte
\* encodings of the commitments to d, k, y, y_inv in that order; a list of N
\* elements, the 32-byte encodings of the toggle commitments in public-list
\* order; each a length-prefixed record, with nothing before, between or
\* after them.
C3_ThreeRecordsInOrder ==
    \A t \in Threads :
        pc[t] \in {"encoded", "decoded"} =>
            LET p == result[t].val
                w == <<args[t].w.d, args[t].w.k, args[t].w.y, args[t].w.y_inv>>
                n == Len(args[t].pub_list)
                top == ReadAll(encoded[t].val)
                cs == ReadAll(top.val[2])
                ts == ReadAll(top.val[3])
            IN /\ encoded[t].tag = "Ok"
               /\ top.tag = "Ok"
               /\ Len(top.val) = 3
               /\ top.val[1] = ProofToBytes(p.proof)
               /\ cs.tag = "Ok"
               /\ Len(cs.val) = 4
               /\ \A i \in 1..4 :
                     /\ Len(cs.val[i]) = 32
                     /\ cs.val[i] = CompressedToBytes(prover[t].V[i])
                     /\ prover[t].v[i] = w[i]
               /\ ts.tag = "Ok"
               /\ Len(ts.val) = n
               /\ \A i \in 1..n :
                     /\ Len(ts.val[i]) = 32
                     /\ ts.val[i] = CompressedToBytes(prover[t].V[4 + i])
               /\ encoded[t].val
                     = TlvRecord(top.val[1]) \o TlvRecord(top.val[2]) \o TlvRecord(top.val[3])
               /\ top.val[2] = Flatten([i \in 1..4 |-> TlvRecord(cs.val[i])])
               /\ top.val[3] = Flatten([i \in 1..n |-> TlvRecord(ts.val[i])])

C3_Witness ==
    \E t \in Threads :
        /\ pc[t] = "encoded"
        /\ Len(result[t].val.t_c) = 2
        /\ Len(ReadAll(encoded[t].val).val) = 3

\* C4: reading the encoded Proof back with a generic record reader (one blob,
\* then two lists of blobs) succeeds and yields the proof bytes, the
\* commitment encodings and the toggle-commitment encodings of the encoded
\* Proof, equal in length and order, and leaves nothing of the stream unread.
C4_RoundTrip ==
    \A t \in Threads :
        pc[t] = "decoded" =>
            LET p == result[t].val
                d == decoded[t]
            IN /\ d.tag = "Ok"
               /\ d.val.proof = ProofToBytes(p.proof)
               /\ Len(d.val.commitments) = Len(p.commitments)
               /\ \A i \in 1..Len(p.commitments) :
                     d.val.commitments[i] = CompressedToBytes(p.commitments[i])
               /\ Len(d.val.t_c) = Len(p.t_c)
               /\ \A i \in 1..Len(p.t_c) :
                     d.val.t_c[i] = CompressedToBytes(p.t_c[i])
               /\ d.val.rest = <<>>

C4_Witness ==
    \E t \in Threads :
        /\ pc[t] = "decoded"
        /\ decoded[t].tag = "Ok"
        /\ Len(decoded[t].val.commitments) = 4
        /\ Len(decoded[t].val.t_c) = 2

\* the call on thread t is a try_from_reader_variables call
IsReaderCall(t) == reader[t].src # NoSource

Reading(t) == pc[t] \in {"read_scalars", "read_list", "read_toggle", "call_prove"}

\* the 1-based number of the record a bundle fails at; 0 when all nine decode
FailsAt(src) ==
    IF src.keep < 9 THEN src.keep + 1
    ELSE IF src.kind \in {"short", "noncanonical", "badwidth"} THEN src.pos
    ELSE 0

\* C5: try_from_reader_variables reads seven scalar records, bound in order
\* to d, k, y, y_inv, q, z_img, seed, then the public list in order, then the
\* toggle; when all nine decode it has consumed the whole bundle, calls
\* Proof::prove exactly once with exactly those values in those parameter
\* positions, and returns what that call returned.
C5_ReadsInOrderThenProvesOnce ==
    \A t \in Threads :
        IsReaderCall(t) =>
            LET a == reader[t].src.a
                s == <<a.w.d, a.w.k, a.w.y, a.w.y_inv, a.w.q, a.w.z_img, a.w.seed>>
            IN /\ reader[t].scalars = SubSeq(s, 1, Len(reader[t].scalars))
               /\ pc[t] = "read_scalars" => reader[t].nread = Len(reader[t].scalars)
               /\ pc[t] \in {"read_list", "read_toggle", "call_prove"} =>
                     Len(reader[t].scalars) = 7
               /\ pc[t] = "read_list" => reader[t].nread = 7
               /\ pc[t] = "read_toggle" =>
                     reader[t].nread = 8 /\ reader[t].pub_list = a.pub_list
               /\ Reading(t) => started = 0
               /\ started <= 1
               /\ (FailsAt(reader[t].src) = 0 /\ pc[t] = "call_prove") =>
                     /\ reader[t].nread = 9
                     /\ reader[t].input = <<>>
                     /\ reader[t].toggle = a.toggle
               /\ (FailsAt(reader[t].src) = 0 /\ ~Reading(t)) =>
                     /\ started = 1
                     /\ args[t] = [w |-> a.w, pub_list |-> a.pub_list, toggle |-> a.toggle]
                     /\ reader[t].nread = 9
               /\ (FailsAt(reader[t].src) = 0 /\ pc[t] = "done") =>
                     /\ Len(history[t]) = 1
                     /\ result[t] = history[t][1].result
                     /\ history[t][1].args
                           = [w |-> a.w, pub_list |-> a.pub_list, toggle |-> a.toggle]

C5_Witness ==
    \E t \in Threads :
        /\ IsReaderCall(t)
        /\ pc[t] = "done"
        /\ reader[t].src.keep = 9
        /\ reader[t].src.pos = 0
        /\ Len(reader[t].pub_list) = 2
        /\ reader[t].toggle = 1
        /\ result[t].tag = "Ok"

\* C6: when the stream ends before one of the nine records (after k < 9
\* complete records, possibly inside the next one) the call returns an
\* unexpected-end-of-input error and Proof::prove is never called; a stream
\* that lacks only the toggle record fails so too, not proving with toggle 0.
C6_TruncationFails ==
    \A t \in Threads :
        (IsReaderCall(t) /\ reader[t].src.keep < 9) =>
            /\ started = 0
            /\ pc[t] \in {"read_scalars", "read_list", "read_toggle", "done"}
            /\ reader[t].nread <= reader[t].src.keep + 1
            /\ pc[t] = "done" =>
                  /\ result[t].tag = "Err"
                  /\ ErrorClass(result[t].err) = "truncation"
                  /\ history[t] = <<>>

C6_Witness ==
    \E t \in Threads :
        /\ IsReaderCall(t)
        /\ reader[t].src.keep = 8
        /\ reader[t].src.tail = 0
        /\ pc[t] = "done"
        /\ result[t].tag = "Err"
        /\ Len(reader[t].pub_list) = 2

\* C7: a try_from_reader_variables call that meets a truncated or malformed
\* record returns an error at that record: it has read no record after it,
\* Proof::prove was never called and no Proof is returned or encoded; a
\* record that does not parse as a scalar or integer gives a decoding error,
\* which is neither the truncation nor the proving error.
C7_ReaderErrorsTerminal ==
    \A t \in Threads :
        (IsReaderCall(t) /\ FailsAt(reader[t].src) # 0) =>
            /\ started = 0
            /\ history[t] = <<>>
            /\ encoded[t] = NoResult
            /\ pc[t] \in {"read_scalars", "read_list", "read_toggle", "done"}
            /\ reader[t].nread <= FailsAt(reader[t].src)
            /\ pc[t] # "done" => result[t] = NoResult
            /\ pc[t] = "done" =>
                  /\ result[t].tag = "Err"
                  /\ reader[t].nread = FailsAt(reader[t].src)
                  /\ ~ENABLED Next
                  /\ reader[t].src.keep = 9 =>
                        /\ ErrorClass(result[t].err) = "decoding"
                        /\ result[t].err \notin {"UnexpectedEof", "Io:UnexpectedEof", "R1CS"}

C7_Witness ==
    \E t \in Threads :
        /\ IsReaderCall(t)
        /\ reader[t].src.pos = 8
        /\ reader[t].src.kind = "noncanonical"
        /\ pc[t] = "done"
        /\ result[t] = Err("Bincode")
        /\ reader[t].nread = 8

====
